---- MODULE Spec2Model ----
(***************************************************************************)
(* Interactive Website Playground: the shared progress tracker (main.js)   *)
(* and the micro-interactions page (micro-interactions.js), as a state     *)
(* machine over the browser's storage, the current document and the        *)
(* widgets' closure variables.  Every handler runs to completion (one      *)
(* action per handler); timers are separate actions.                       *)
(***************************************************************************)
EXTENDS Integers, Sequences, FiniteSets, TLC

(***************************************************************************)
(* Bounds of the model                                                     *)
(***************************************************************************)

\* clicks on the state button explored in one page load
MaxClicks == 6

\* bottom-then-top scroll sequences counted in one page load
MaxJourneys == 2

\* entries handed to one call of an observer callback
MaxBatch == 2

(***************************************************************************)
(* Program constants                                                       *)
(***************************************************************************)

\* main.js:15-20 (id and url of each tracked page; the display name is not read)
FEATURE_PAGES ==
    << [id |-> "micro-interactions", url |-> "micro-interactions.html"],
       [id |-> "scroll-lab",         url |-> "scroll-lab.html"],
       [id |-> "react-lab",          url |-> "react-lab.html"],
       [id |-> "vue-lab",            url |-> "vue-lab.html"] >>

\* mutant: a pasted line of the map keeps the id of the line it was copied from
fileToIdMap_PastedId ==
    { <<"micro-interactions.html", "micro-interactions">>,
      <<"scroll-lab.html", "scroll-lab">>,
      <<"react-lab.html", "scroll-lab">>,
      <<"vue-lab.html", "vue-lab">> }

\* main.js:84-89, the object literal of getCurrentPageId, as a set of pairs
fileToIdMap ==
    { <<"micro-interactions.html", "micro-interactions">>,
      <<"scroll-lab.html", "scroll-lab">>,
      <<"react-lab.html", "react-lab">>,
      <<"vue-lab.html", "vue-lab">> }

\* the ids of the catalog
CatalogIds == { FEATURE_PAGES[i].id : i \in DOMAIN FEATURE_PAGES }

\* an argument a caller of window.PlaygroundProgress may pass that is no catalog id
OtherIds == { "other-page" }

PageIds == CatalogIds \cup OtherIds

(***************************************************************************)
(* The textual encoding.  A text is a sequence of tokens: the punctuation  *)
(* of a JSON array, one token per string literal, and "#" for a character  *)
(* no JSON text may hold.                                                  *)
(***************************************************************************)

IsStringToken(t) == t \in PageIds

RECURSIVE Joined(_)
Joined(pages) ==
    IF pages = << >> THEN << >>
    ELSE IF Len(pages) = 1 THEN << pages[1] >>
    ELSE << pages[1], "," >> \o Joined(Tail(pages))

\* JSON.stringify of an array of strings (main.js:48)
JSONstringify(pages) == << "[" >> \o Joined(pages) \o << "]" >>

\* JSON.parse (main.js:35): the array a well-formed text encodes, or a SyntaxError
JSONparse(text) ==
    LET n == Len(text)
        inner == IF n >= 2 THEN SubSeq(text, 2, n - 1) ELSE << >>
        wellFormed ==
            /\ n >= 2
            /\ text[1] = "["
            /\ text[n] = "]"
            /\ \/ inner = << >>
               \/ /\ Len(inner) % 2 = 1
                  /\ \A i \in 1..Len(inner) :
                        IF i % 2 = 1 THEN IsStringToken(inner[i]) ELSE inner[i] = ","
    IN  IF wellFormed
        THEN [threw |-> FALSE,
              val   |-> [i \in 1..((Len(inner) + 1) \div 2) |-> inner[2 * i - 1]]]
        ELSE [threw |-> TRUE, val |-> << >>]

(***************************************************************************)
(* The key-value store.  An entry is absent or holds a text.  The store    *)
(* works ("ok"), refuses writes ("full": setItem throws, quota exceeded)   *)
(* or refuses every access ("denied": getItem and setItem throw).          *)
(***************************************************************************)

StorageModes == { "ok", "full", "denied" }

NoEntry == [present |-> FALSE, text |-> << >>]

Entry(text) == [present |-> TRUE, text |-> text]

\* localStorage.getItem(STORAGE_KEY) (main.js:34)
getItem(store, mode) ==
    IF mode = "denied" THEN [threw |-> TRUE, val |-> NoEntry]
    ELSE [threw |-> FALSE, val |-> store]

\* localStorage.setItem(STORAGE_KEY, text) (main.js:48)
setItem(store, text, mode) ==
    IF mode \in { "full", "denied" } THEN [threw |-> TRUE, store |-> store]
    ELSE [threw |-> FALSE, store |-> Entry(text)]

\* truthiness of what getItem returned: null and the empty string are falsy
Truthy(entry) == entry.present /\ entry.text # << >>

Includes(seq, x) == \E i \in 1..Len(seq) : seq[i] = x

Elements(seq) == { seq[i] : i \in 1..Len(seq) }

(***************************************************************************)
(* main.js: the storage helpers.  Every function returns threw (an         *)
(* exception left it) beside its value.                                    *)
(***************************************************************************)

ReadError == "Error reading from localStorage:"

SaveError == "Error saving to localStorage:"

Returned(val) == [threw |-> FALSE, val |-> val, logged |-> { }]

\* the catch of getVisitedPages (main.js:36-39)
ReadCaught == [threw |-> FALSE, val |-> << >>, logged |-> { ReadError }]

\* mutant: JSON.parse outside the try
ParsedOrCaught_NoTry(parsed) ==
    IF parsed.threw THEN [threw |-> TRUE, val |-> << >>, logged |-> { }]
    ELSE Returned(parsed.val)

\* main.js:35, JSON.parse inside the try
ParsedOrCaught(parsed) ==
    IF parsed.threw THEN ReadCaught ELSE Returned(parsed.val)

\* main.js:34-35, with got what getItem answered
StoredOrEmpty(got) ==
    IF got.threw THEN ReadCaught
    ELSE IF Truthy(got.val) THEN ParsedOrCaught(JSONparse(got.val.text))
    ELSE Returned(<< >>)

getVisitedPages(store, mode) == StoredOrEmpty(getItem(store, mode))

\* mutant: setItem outside the try
SavedOrCaught_NoTry(store, put) ==
    IF put.threw
    THEN [threw |-> TRUE, store |-> store, logged |-> { }]
    ELSE [threw |-> FALSE, store |-> put.store, logged |-> { }]

\* main.js:47-51, with put what setItem answered
SavedOrCaught(store, put) ==
    IF put.threw
    THEN [threw |-> FALSE, store |-> store, logged |-> { SaveError }]
    ELSE [threw |-> FALSE, store |-> put.store, logged |-> { }]

saveVisitedPages(store, pages, mode) ==
    SavedOrCaught(store, setItem(store, JSONstringify(pages), mode))

\* a step's result, with what the steps before it logged
Following(before, result) == [result EXCEPT !.logged = before \cup @]

\* mutant: the page is pushed without the includes test
PushIfAbsent_NoIncludesTest(store, pageId, mode, visited) ==
    IF visited.threw
    THEN [threw |-> TRUE, store |-> store, logged |-> visited.logged]
    ELSE Following(visited.logged,
                   saveVisitedPages(store, Append(visited.val, pageId), mode))

\* mutant: the page alone is saved, not the list it was pushed on
PushIfAbsent_SavesPageAlone(store, pageId, mode, visited) ==
    IF visited.threw
    THEN [threw |-> TRUE, store |-> store, logged |-> visited.logged]
    ELSE IF ~Includes(visited.val, pageId)
    THEN Following(visited.logged, saveVisitedPages(store, << pageId >>, mode))
    ELSE [threw |-> FALSE, store |-> store, logged |-> visited.logged]

\* main.js:60-63, with visited what getVisitedPages returned
PushIfAbsent(store, pageId, mode, visited) ==
    IF visited.threw
    THEN [threw |-> TRUE, store |-> store, logged |-> visited.logged]
    ELSE IF ~Includes(visited.val, pageId)
    THEN Following(visited.logged,
                   saveVisitedPages(store, Append(visited.val, pageId), mode))
    ELSE [threw |-> FALSE, store |-> store, logged |-> visited.logged]

markPageAsVisited(store, pageId, mode) ==
    PushIfAbsent(store, pageId, mode, getVisitedPages(store, mode))

\* markPageAsVisited in a tab that shares the store with others: the call has
\* read the list (main.js:59) and not yet tested and saved it (60-63)
Tabs == { 1, 2 }

IdleTab ==
    [pc |-> "idle", pageId |-> "",
     visited |-> [threw |-> FALSE, val |-> << >>, logged |-> { }]]

tabRead(store, mode, pageId) ==
    [pc |-> "read", pageId |-> pageId, visited |-> getVisitedPages(store, mode)]

\* mutant: the list is read again when it is saved
tabWrite_ReadsAgain(store, mode, tab) ==
    markPageAsVisited(store, tab.pageId, mode)

tabWrite(store, mode, tab) ==
    PushIfAbsent(store, tab.pageId, mode, tab.visited)

\* main.js:73, with visited what getVisitedPages returned
IncludedIn(visited, pageId) ==
    [threw  |-> visited.threw,
     val    |-> ~visited.threw /\ Includes(visited.val, pageId),
     logged |-> visited.logged]

isPageVisited(store, pageId, mode) ==
    IncludedIn(getVisitedPages(store, mode), pageId)

(***************************************************************************)
(* window.location.pathname, as the segments pathname.split('/') yields:   *)
(* "/" is <<"", "">>, "/scroll-lab.html" is <<"", "scroll-lab.html">>.     *)
(***************************************************************************)

Paths ==
    { << "", "" >>,
      << "", "index.html" >>,
      << "", "lab1", "" >>,
      << "", "about.html" >> }
    \cup { << "", FEATURE_PAGES[i].url >> : i \in DOMAIN FEATURE_PAGES }

\* the value null
Null == "<null>"

\* pathname.split('/').pop() || 'index.html' (main.js:81 and main.js:221)
CurrentFile(path) ==
    LET popped == path[Len(path)]
    IN  IF popped = "" THEN "index.html" ELSE popped

\* pathname.includes('index.html'): some segment holds the substring
PathIncludesIndexHtml(path) == \E i \in 1..Len(path) : path[i] \in { "index.html" }

\* pathname !== '/'
PathIsNotRoot(path) == path # << "", "" >>

\* pathname.endsWith('/')
PathEndsWithSlash(path) == path[Len(path)] = ""

\* fileToIdMap[currentFile] || null (main.js:91)
IdOfFile(currentFile) ==
    IF \E pair \in fileToIdMap : pair[1] = currentFile
    THEN (CHOOSE pair \in fileToIdMap : pair[1] = currentFile)[2]
    ELSE Null

getCurrentPageId(path) == IdOfFile(CurrentFile(path))

\* main.js:99-101
MarkIfTracked(store, currentPageId, mode) ==
    IF currentPageId # Null
    THEN markPageAsVisited(store, currentPageId, mode)
    ELSE [threw |-> FALSE, store |-> store, logged |-> { }]

markCurrentPageAsVisited(store, path, mode) ==
    MarkIfTracked(store, getCurrentPageId(path), mode)

(***************************************************************************)
(* Progress calculation                                                    *)
(***************************************************************************)

\* Math.round(num / den) for den > 0: the nearest integer, a half rounds up
MathRound(num, den) == (2 * num + den) \div (2 * den)

\* mutant: the ratio is rounded without scaling it to a percentage
StatsOf_Unscaled(visited, visitedCount, total) ==
    [threw  |-> visited.threw,
     logged |-> visited.logged,
     val    |-> [visitedCount |-> visitedCount,
                 total        |-> total,
                 percentage   |-> IF total > 0
                                  THEN MathRound(visitedCount, total)
                                  ELSE 0,
                 allVisited   |-> visitedCount = total]]

\* main.js:116-123
StatsOf(visited, visitedCount, total) ==
    [threw  |-> visited.threw,
     logged |-> visited.logged,
     val    |-> [visitedCount |-> visitedCount,
                 total        |-> total,
                 percentage   |-> IF total > 0
                                  THEN MathRound(visitedCount * 100, total)
                                  ELSE 0,
                 allVisited   |-> visitedCount = total]]

\* mutant: total taken from the visited list, not from FEATURE_PAGES
CountedStats_TotalOfVisited(visited) ==
    StatsOf(visited, Len(visited.val), Len(visited.val))

\* main.js:113-115
CountedStats(visited) == StatsOf(visited, Len(visited.val), Len(FEATURE_PAGES))

getProgressStats(store, mode) == CountedStats(getVisitedPages(store, mode))

(***************************************************************************)
(* The document.  A fresh document holds its markup; the elements of the   *)
(* progress indicator exist on the landing page, the nav links on every    *)
(* page.                                                                   *)
(***************************************************************************)

NavLinks == { "index.html" } \cup { FEATURE_PAGES[i].url : i \in DOMAIN FEATURE_PAGES }

Markup ==
    [progressFill |-> << >>,
     progressText |-> << >>,
     cardStatus   |-> [id \in CatalogIds |-> "markup"],
     successBox   |-> "markup",
     tipsContent  |-> "markup",
     navActive    |-> { },
     hasProgress  |-> FALSE]

\* the document served at path: the landing page carries the progress
\* indicator's elements
DocumentAt(path) == [Markup EXCEPT !.hasProgress = CurrentFile(path) = "index.html"]

\* the progress indicator's elements are in the document (querySelector finds them)
HasProgressElements(d) == d.hasProgress

\* mutant: the branches test the count one too high
TipFor_CountOneHigh(visitedCount) ==
    IF visitedCount = 1 THEN "start-with-micro-interactions"
    ELSE IF visitedCount = 2 THEN "try-scroll-storytelling-next"
    ELSE IF visitedCount = 3 THEN "check-react-or-vue-lab"
    ELSE IF visitedCount = 4 THEN "visit-last-remaining-section"
    ELSE "explored-everything"

\* the tip chosen for a visited count (main.js:198-208)
TipFor(visitedCount) ==
    IF visitedCount = 0 THEN "start-with-micro-interactions"
    ELSE IF visitedCount = 1 THEN "try-scroll-storytelling-next"
    ELSE IF visitedCount = 2 THEN "check-react-or-vue-lab"
    ELSE IF visitedCount = 3 THEN "visit-last-remaining-section"
    ELSE "explored-everything"

updateTipsBox(d, path, stats) ==
    IF ~HasProgressElements(d) THEN d
    ELSE [d EXCEPT !.tipsContent = TipFor(stats.visitedCount)]

\* mutant: the congratulations box is shown but never hidden again
Rendered_NeverHides(store, path, d, mode, stats) ==
    IF stats.threw THEN [threw |-> TRUE, dom |-> d, logged |-> stats.logged]
    ELSE IF ~HasProgressElements(d)
    THEN [threw |-> FALSE, dom |-> d, logged |-> stats.logged]
    ELSE [threw  |-> FALSE,
          logged |-> stats.logged,
          dom    |-> updateTipsBox(
                        [d EXCEPT
                          !.progressFill = << stats.val.percentage >>,
                          !.progressText = << stats.val.visitedCount, stats.val.total >>,
                          !.cardStatus =
                              [id \in CatalogIds |->
                                  IF isPageVisited(store, id, mode).val
                                  THEN "visited" ELSE "not-visited"],
                          !.successBox =
                              IF stats.val.allVisited THEN "shown" ELSE @],
                        path, stats.val)]

\* main.js:141-185, with stats what getProgressStats returned
Rendered(store, path, d, mode, stats) ==
    IF stats.threw THEN [threw |-> TRUE, dom |-> d, logged |-> stats.logged]
    ELSE IF ~HasProgressElements(d)
    THEN [threw |-> FALSE, dom |-> d, logged |-> stats.logged]
    ELSE [threw  |-> FALSE,
          logged |-> stats.logged,
          dom    |-> updateTipsBox(
                        [d EXCEPT
                          !.progressFill = << stats.val.percentage >>,
                          !.progressText = << stats.val.visitedCount, stats.val.total >>,
                          !.cardStatus =
                              [id \in CatalogIds |->
                                  IF isPageVisited(store, id, mode).val
                                  THEN "visited" ELSE "not-visited"],
                          !.successBox =
                              IF stats.val.allVisited THEN "shown" ELSE "hidden"],
                        path, stats.val)]

\* mutant: the indicator is rendered whatever the path
updateProgressIndicator_NoPathTest(store, path, d, mode) ==
    Rendered(store, path, d, mode, getProgressStats(store, mode))

\* updateProgressIndicator (main.js:133-186)
updateProgressIndicator(store, path, d, mode) ==
    IF /\ ~PathIncludesIndexHtml(path)
       /\ PathIsNotRoot(path)
       /\ ~PathEndsWithSlash(path)
    THEN [threw |-> FALSE, dom |-> d, logged |-> { }]
    ELSE Rendered(store, path, d, mode, getProgressStats(store, mode))

\* main.js:228-230, for one link
LinkIsActive(linkPath, currentFile) ==
    \/ linkPath = currentFile
    \/ (currentFile = "index.html" /\ linkPath = "index.html")
    \/ (currentFile = "" /\ linkPath = "index.html")

updateActiveNavLink(path, d) ==
    [d EXCEPT !.navActive =
        { linkPath \in NavLinks : LinkIsActive(linkPath, CurrentFile(path)) }]

InitSteps ==
    << "markCurrentPageAsVisited", "updateProgressIndicator", "updateActiveNavLink" >>

\* main.js:248-251, with shown what updateProgressIndicator returned
AfterProgress(path, marked, shown) ==
    IF shown.threw
    THEN [threw |-> TRUE, store |-> marked.store, dom |-> shown.dom,
          logged |-> marked.logged \cup shown.logged,
          done |-> SubSeq(InitSteps, 1, 1)]
    ELSE [threw |-> FALSE, store |-> marked.store,
          dom |-> updateActiveNavLink(path, shown.dom),
          logged |-> marked.logged \cup shown.logged,
          done |-> InitSteps]

\* main.js:245-251, with marked what markCurrentPageAsVisited returned
AfterMark(path, d, mode, marked) ==
    IF marked.threw
    THEN [threw |-> TRUE, store |-> marked.store, dom |-> d,
          logged |-> marked.logged, done |-> << >>]
    ELSE AfterProgress(path, marked,
                       updateProgressIndicator(marked.store, path, d, mode))

\* the steps of initializeShared in order; done lists those that returned
initializeShared(store, path, d, mode) ==
    AfterMark(path, d, mode, markCurrentPageAsVisited(store, path, mode))

(***************************************************************************)
(* micro-interactions.js.  The page's widgets: the closure variables of    *)
(* the initializers and the elements the handlers add to the document.     *)
(* sessionStorage is taken to answer every call: the script guards none.   *)
(***************************************************************************)

MicroFile == "micro-interactions.html"

\* the elements the initializers look up
MicroElements == { "state-button", "flip-card", "theme-toggle", "theme-preview" }

\* the elements carrying data-tooltip
TooltipTriggers == { "tooltip-a", "tooltip-b" }

\* micro-interactions.js:22-26
states == << "Hover me", "Click me", "Nice!" >>

InteractionMessage == "You've tried at least one micro interaction!"

\* a document without the script, or before it ran
NoWidgets ==
    [elements     |-> { },
     initError    |-> FALSE,
     listeners    |-> { },
     currentState |-> 0,
     clickCount   |-> 0,
     buttonRequests |-> 0,
     buttonText   |-> "markup",
     eggTimers    |-> 0,
     eggsScheduled |-> 0,
     easterEggs   |-> << >>,
     flipped      |-> FALSE,
     checked      |-> FALSE,
     themeText    |-> "markup",
     darkTheme    |-> FALSE,
     tooltipRef   |-> [t \in TooltipTriggers |-> FALSE],
     tooltips     |-> [t \in TooltipTriggers |-> 0],
     banners      |-> << >>,
     hovered      |-> { }]

\* mutant: the button is used without the test for null
initStateButton_NoNullTest(m) ==
    IF m.initError THEN m
    ELSE IF "state-button" \notin m.elements THEN [m EXCEPT !.initError = TRUE]
    ELSE [m EXCEPT !.listeners = @ \cup { "state-button" }]

\* initStateButton (micro-interactions.js:17-65): the listeners are registered when
\* the button exists.  An initializer does not run when an earlier one threw.
initStateButton(m) ==
    IF m.initError THEN m
    ELSE IF "state-button" \notin m.elements THEN m
    ELSE [m EXCEPT !.listeners = @ \cup { "state-button" }]

\* initFlipCard (micro-interactions.js:93-105)
initFlipCard(m) ==
    IF m.initError THEN m
    ELSE IF "flip-card" \notin m.elements THEN m
    ELSE [m EXCEPT !.listeners = @ \cup { "flip-card" }]

\* initThemeToggle (micro-interactions.js:114-129)
initThemeToggle(m) ==
    IF m.initError THEN m
    ELSE IF "theme-toggle" \notin m.elements \/ "theme-preview" \notin m.elements THEN m
    ELSE [m EXCEPT !.listeners = @ \cup { "theme-toggle" }]

\* initTooltips (micro-interactions.js:138-168)
initTooltips(m) ==
    IF m.initError THEN m
    ELSE [m EXCEPT !.listeners = @ \cup (m.elements \cap TooltipTriggers)]

\* init() (micro-interactions.js:232-237) in a document with these elements
init(elements) ==
    initTooltips(initThemeToggle(initFlipCard(initStateButton(
        [NoWidgets EXCEPT !.elements = elements]))))

\* the widgets of a fresh document at path
LoadedWidgets(path) ==
    IF CurrentFile(path) = MicroFile
    THEN init(MicroElements \cup TooltipTriggers)
    ELSE NoWidgets

updateButtonState(m, state) == [m EXCEPT !.buttonText = state]

\* mutant: the banner is shown without reading the session flag
showInteractionMessage_NoFlagTest(m, flag, message) ==
    [micro |-> [m EXCEPT !.banners =
                    Append(@, [text |-> message, phase |-> "appended"])],
     flag  |-> TRUE,
     shown |-> 1]

\* showInteractionMessage (micro-interactions.js:177-203); flag is the entry
\* 'interaction-message-shown' of sessionStorage
showInteractionMessage(m, flag, message) ==
    IF flag
    THEN [micro |-> m, flag |-> flag, shown |-> 0]
    ELSE [micro |-> [m EXCEPT !.banners =
                        Append(@, [text |-> message, phase |-> "appended"])],
          flag  |-> TRUE,
          shown |-> 1]

\* mutant: the counter is tested with >= 5
buttonClick_AtLeastFive(m, flag) ==
    LET m1 == [m EXCEPT !.clickCount = @ + 1]
        m2 == IF m1.currentState = 1
              THEN showInteractionMessage(
                       updateButtonState([m1 EXCEPT !.currentState = 2,
                                                   !.buttonRequests = @ + 1],
                                         states[3]),
                       flag, InteractionMessage)
              ELSE [micro |-> m1, flag |-> flag, shown |-> 0]
    IN  IF m1.clickCount >= 5
        THEN [m2 EXCEPT !.micro.eggTimers = @ + 1, !.micro.eggsScheduled = @ + 1]
        ELSE m2

\* mutant: a click moves the button to Clicked from Idle as well
buttonClick_FromIdleToo(m, flag) ==
    LET m1 == [m EXCEPT !.clickCount = @ + 1]
        m2 == IF m1.currentState # 2
              THEN showInteractionMessage(
                       updateButtonState([m1 EXCEPT !.currentState = 2,
                                                   !.buttonRequests = @ + 1],
                                         states[3]),
                       flag, InteractionMessage)
              ELSE [micro |-> m1, flag |-> flag, shown |-> 0]
    IN  IF m1.clickCount = 5
        THEN [m2 EXCEPT !.micro.eggTimers = @ + 1, !.micro.eggsScheduled = @ + 1]
        ELSE m2

\* the click listener of the state button (micro-interactions.js:38-55);
\* buttonRequests counts its calls of showInteractionMessage
buttonClick(m, flag) ==
    LET m1 == [m EXCEPT !.clickCount = @ + 1]
        m2 == IF m1.currentState = 1
              THEN showInteractionMessage(
                       updateButtonState([m1 EXCEPT !.currentState = 2,
                                                   !.buttonRequests = @ + 1],
                                         states[3]),
                       flag, InteractionMessage)
              ELSE [micro |-> m1, flag |-> flag, shown |-> 0]
    IN  IF m1.clickCount = 5
        THEN [m2 EXCEPT !.micro.eggTimers = @ + 1, !.micro.eggsScheduled = @ + 1]
        ELSE m2

\* mutant: the overlay is held in a variable local to the mouseenter listener, so
\* the mouseleave listener finds none to remove
mouseEnter_ForgetsOverlay(m, flag, el) ==
    IF el = "state-button"
    THEN [micro |-> IF m.currentState = 0
                    THEN updateButtonState([m EXCEPT !.currentState = 1], states[2])
                    ELSE m,
          flag |-> flag, shown |-> 0]
    ELSE IF el = "flip-card"
    THEN showInteractionMessage([m EXCEPT !.flipped = TRUE], flag, InteractionMessage)
    ELSE showInteractionMessage([m EXCEPT !.tooltips[el] = @ + 1],
                                flag, InteractionMessage)

\* the mouseenter listeners (micro-interactions.js:30-35, 97-100, 144-159)
mouseEnter(m, flag, el) ==
    IF el = "state-button"
    THEN [micro |-> IF m.currentState = 0
                    THEN updateButtonState([m EXCEPT !.currentState = 1], states[2])
                    ELSE m,
          flag |-> flag, shown |-> 0]
    ELSE IF el = "flip-card"
    THEN showInteractionMessage([m EXCEPT !.flipped = TRUE], flag, InteractionMessage)
    ELSE showInteractionMessage(
             [m EXCEPT !.tooltipRef[el] = TRUE, !.tooltips[el] = @ + 1],
             flag, InteractionMessage)

\* mutant: the button is reset on mouseleave whenever it is not idle
mouseLeave_ResetsClicked(m, el) ==
    IF el = "state-button"
    THEN IF m.currentState # 0
         THEN updateButtonState([m EXCEPT !.currentState = 0], states[1])
         ELSE m
    ELSE IF el = "flip-card"
    THEN [m EXCEPT !.flipped = FALSE]
    ELSE IF m.tooltipRef[el]
         THEN [m EXCEPT !.tooltipRef[el] = FALSE, !.tooltips[el] = @ - 1]
         ELSE m

\* the mouseleave listeners (micro-interactions.js:58-64, 102-104, 161-166)
mouseLeave(m, el) ==
    IF el = "state-button"
    THEN IF m.currentState = 1
         THEN updateButtonState([m EXCEPT !.currentState = 0], states[1])
         ELSE m
    ELSE IF el = "flip-card"
    THEN [m EXCEPT !.flipped = FALSE]
    ELSE IF m.tooltipRef[el]
         THEN [m EXCEPT !.tooltipRef[el] = FALSE, !.tooltips[el] = @ - 1]
         ELSE m

\* the change listener of the theme toggle (micro-interactions.js:119-128)
themeChange(m, flag) ==
    LET m1 == IF m.checked
              THEN [m EXCEPT !.darkTheme = TRUE, !.themeText = "Dark theme selected"]
              ELSE [m EXCEPT !.darkTheme = FALSE, !.themeText = "Light theme selected"]
    IN  showInteractionMessage(m1, flag, InteractionMessage)

\* showEasterEgg (micro-interactions.js:208-223)
showEasterEgg(m) == [m EXCEPT !.easterEggs = Append(@, "appended")]

\* mutant: the last timer fades the banner out and leaves it in the document
NextPhase_NeverRemoved(phase) ==
    IF phase = "appended" THEN "visible"
    ELSE "fading"

\* the next phase of a banner under its timers (micro-interactions.js:189-199)
NextPhase(phase) ==
    IF phase = "appended" THEN "visible"
    ELSE IF phase = "visible" THEN "fading"
    ELSE "removed"

RemoveAt(seq, i) == SubSeq(seq, 1, i - 1) \o SubSeq(seq, i + 1, Len(seq))

(***************************************************************************)
(* scroll-lab.js.  The closure variables of the script and the elements it *)
(* changes.  Positions are scrollTop values of a document ScrollHeight     *)
(* high in a window ClientHeight high.                                     *)
(***************************************************************************)

ScrollFile == "scroll-lab.html"

ScrollHeight == 2000

ClientHeight == 800

\* scrollTop values on both sides of every threshold the handler tests
ScrollPositions ==
    { 0, 99, 100, 300, 301,
      ScrollHeight - ClientHeight - 50, ScrollHeight - ClientHeight - 49,
      ScrollHeight - ClientHeight }

\* the elements of class scroll-section
Sections == { "section-1", "section-2" }

\* the elements of class timeline-step
TimelineSteps == { "step-1", "step-2" }

\* a document without the script, or before it ran
NoScroll ==
    [listening        |-> FALSE,
     hasReachedBottom |-> FALSE,
     hasReturnedToTop |-> FALSE,
     scrollTimeout    |-> FALSE,
     overlayRequests  |-> 0,
     overlays         |-> << >>,
     overlaysShown    |-> 0,
     scrollTop        |-> 0,
     hintFaded        |-> FALSE,
     observed         |-> { },
     visible          |-> { },
     awaitingTop      |-> FALSE,
     journeys         |-> 0,
     hasHint          |-> FALSE,
     docSections      |-> { },
     docSteps         |-> { },
     threw            |-> FALSE,
     steps            |-> { },
     active           |-> { }]

\* initScrollAnimations (scroll-lab.js:20-49): every section is observed
initScrollAnimations(s, sections) == [s EXCEPT !.observed = sections]

\* initScrollTracking (scroll-lab.js:58-89): the scroll listener is registered
initScrollTracking(s) == [s EXCEPT !.listening = TRUE]

\* init() (scroll-lab.js:166-170)
\* initTimelineHighlighting (scroll-lab.js:136-160): every step is observed
initTimelineHighlighting(s, steps) == [s EXCEPT !.steps = steps]

\* the document of the script: its sections, its timeline steps and whether it
\* has the element of class scroll-hint
ScrollDocument(sections, steps, hint) ==
    [NoScroll EXCEPT !.hasHint = hint, !.docSections = sections, !.docSteps = steps]

scrollInit(sections, steps, hint) ==
    initTimelineHighlighting(
        initScrollTracking(
            initScrollAnimations(ScrollDocument(sections, steps, hint), sections)),
        steps)

\* the script state of a fresh document at path
LoadedScroll(path) ==
    IF CurrentFile(path) = ScrollFile
    THEN scrollInit(Sections, TimelineSteps, TRUE)
    ELSE NoScroll

\* scroll-lab.js:66-69
distanceFromBottom(scrollTop) == ScrollHeight - (scrollTop + ClientHeight)

\* scroll-lab.js:71-74
MarkBottom(s, scrollTop) ==
    IF distanceFromBottom(scrollTop) < 50 /\ ~s.hasReachedBottom
    THEN [s EXCEPT !.hasReachedBottom = TRUE]
    ELSE s

\* mutant: the overlay is scheduled at every return to the top
MarkReturn_NoReturnedTest(s, scrollTop) ==
    IF s.hasReachedBottom /\ scrollTop < 100
    THEN [s EXCEPT !.hasReturnedToTop = TRUE,
                   !.scrollTimeout = TRUE,
                   !.overlayRequests = @ + 1]
    ELSE s

\* mutant: the return to the top is taken without the bottom having been reached
MarkReturn_NoBottomTest(s, scrollTop) ==
    IF scrollTop < 100 /\ ~s.hasReturnedToTop
    THEN [s EXCEPT !.hasReturnedToTop = TRUE,
                   !.scrollTimeout = TRUE,
                   !.overlayRequests = @ + 1]
    ELSE s

\* scroll-lab.js:76-84: the flag is set and showEasterEgg scheduled in 500 ms
MarkReturn(s, scrollTop) ==
    IF s.hasReachedBottom /\ scrollTop < 100 /\ ~s.hasReturnedToTop
    THEN [s EXCEPT !.hasReturnedToTop = TRUE,
                   !.scrollTimeout = TRUE,
                   !.overlayRequests = @ + 1]
    ELSE s

\* mutant: the hint fades out once and is never shown again
updateStickyLabel_OneShot(s, scrollTop) ==
    IF ~s.hasHint THEN s
    ELSE [s EXCEPT !.hintFaded = @ \/ scrollTop > 300]

\* updateStickyLabel (scroll-lab.js:94-106)
updateStickyLabel(s, scrollTop) ==
    IF ~s.hasHint THEN s
    ELSE [s EXCEPT !.hintFaded = scrollTop > 300]

\* the scroll listener (scroll-lab.js:61-88); clearTimeout comes first
onScroll(s, scrollTop) ==
    updateStickyLabel(
        MarkReturn(MarkBottom([s EXCEPT !.scrollTimeout = FALSE], scrollTop),
                   scrollTop),
        scrollTop)

\* showEasterEgg of scroll-lab.js (111-127)
scrollShowEasterEgg(s) ==
    [s EXCEPT !.overlays = Append(@, "appended"), !.overlaysShown = @ + 1]

\* mutant: the section stays observed
observeEntry_KeepsObserving(s, entry) ==
    IF entry.isIntersecting
    THEN [s EXCEPT !.visible = @ \cup { entry.target }]
    ELSE s

\* one entry of the observer callback (scroll-lab.js:34-42)
observeEntry(s, entry) ==
    IF entry.isIntersecting
    THEN [s EXCEPT !.visible = @ \cup { entry.target },
                   !.observed = @ \ { entry.target }]
    ELSE s

\* mutant: a step that stops intersecting keeps the active class
highlightEntry_NeverClears(s, entry) ==
    IF entry.isIntersecting
    THEN [s EXCEPT !.active = @ \cup { entry.target }]
    ELSE s

\* one entry of the timeline observer's callback (scroll-lab.js:148-154)
highlightEntry(s, entry) ==
    IF entry.isIntersecting
    THEN [s EXCEPT !.active = @ \cup { entry.target }]
    ELSE [s EXCEPT !.active = @ \ { entry.target }]

\* the timeline observer's callback (scroll-lab.js:147-155): entries.forEach
RECURSIVE onTimelineIntersect(_, _)
onTimelineIntersect(s, entries) ==
    IF entries = << >> THEN s
    ELSE onTimelineIntersect(highlightEntry(s, Head(entries)), Tail(entries))

\* the observer callback (scroll-lab.js:33-43): entries.forEach
RECURSIVE onIntersect(_, _)
onIntersect(s, entries) ==
    IF entries = << >> THEN s
    ELSE onIntersect(observeEntry(s, Head(entries)), Tail(entries))

(***************************************************************************)
(* vue-lab.js and react-lab.js.  lib is what the library's script tag has  *)
(* defined so far: nothing, the library, or (Vue) a version without        *)
(* createApp.  root is the content of the element the widget mounts on.    *)
(***************************************************************************)

VueFile == "vue-lab.html"

ReactFile == "react-lab.html"

\* vue-lab.js:192
maxAttempts == 10

\* a document without the script, or before it ran
NoVue ==
    [initAttempts    |-> 0,
     timers          |-> 0,
     loadPending     |-> FALSE,
     lib             |-> "absent",
     root            |-> "template",
     fallbackRenders |-> 0,
     mounts          |-> 0,
     mountedOver     |-> { }]

\* the script of vue-lab.js has run (214-227): the 100 ms timer is set and the
\* load listener registered
LoadedVue(path) ==
    IF CurrentFile(path) = VueFile
    THEN [NoVue EXCEPT !.timers = 1, !.loadPending = TRUE]
    ELSE NoVue

\* showVueError (vue-lab.js:161-188): the root's content is replaced
showVueError(v) == [v EXCEPT !.root = "fallback", !.fallbackRenders = @ + 1]

\* initVueApp (vue-lab.js:13-155); mount is taken not to throw
initVueApp(v) ==
    IF v.lib = "absent" THEN [ok |-> FALSE, vue |-> showVueError(v)]
    ELSE IF v.lib = "no-createApp" THEN [ok |-> FALSE, vue |-> showVueError(v)]
    ELSE [ok |-> TRUE,
          vue |-> [v EXCEPT !.root = "app", !.mounts = @ + 1,
                            !.mountedOver = @ \cup { v.root }]]

\* vue-lab.js:195-211, with tried what initVueApp answered
AfterAttempt(tried) ==
    IF tried.ok THEN tried.vue
    ELSE IF tried.vue.initAttempts < maxAttempts /\ tried.vue.lib = "absent"
    THEN [tried.vue EXCEPT !.timers = @ + 1]
    ELSE IF tried.vue.initAttempts >= maxAttempts
    THEN IF tried.vue.lib = "absent" THEN showVueError(tried.vue) ELSE tried.vue
    ELSE tried.vue

\* tryInitVue polling for as long as the library is absent, without a bound
tryInitVue_PollsUnbounded(v) ==
    IF v.lib = "absent"
    THEN [v EXCEPT !.timers = @ + 1]
    ELSE AfterAttempt(initVueApp([v EXCEPT !.initAttempts = @ + 1]))

\* tryInitVue (vue-lab.js:194-212)
tryInitVue(v) == AfterAttempt(initVueApp([v EXCEPT !.initAttempts = @ + 1]))

\* the load listener of vue-lab.js (223-227)
vueOnLoad(v) ==
    IF v.initAttempts < maxAttempts THEN [v EXCEPT !.timers = @ + 1] ELSE v

\* a document without the script, or before it ran
NoReact ==
    [timers      |-> 0,
     loadPending |-> FALSE,
     lib         |-> "absent",
     root        |-> "template",
     mounts      |-> 0,
     errors      |-> 0]

\* the script of react-lab.js has run (252-264): the 100 ms timer is set and the
\* load listener registered
LoadedReact(path) ==
    IF CurrentFile(path) = ReactFile
    THEN [NoReact EXCEPT !.timers = 1, !.loadPending = TRUE]
    ELSE NoReact

\* initReactApp (react-lab.js:233-249)
initReactApp(r) ==
    IF r.lib = "loaded"
    THEN [r EXCEPT !.root = "app", !.mounts = @ + 1]
    ELSE [r EXCEPT !.errors = @ + 1]

\* the load listener of react-lab.js (262-264)
reactOnLoad(r) == [r EXCEPT !.timers = @ + 1]

(***************************************************************************)
(* State                                                                   *)
(***************************************************************************)

VARIABLES
    localStorage,   \* the entry under STORAGE_KEY in localStorage
    storageMode,    \* how localStorage answers the next handler
    pathname,       \* the loaded document's path, << >> before the first load
    dom,            \* the loaded document
    ret,            \* the last operation of main.js: what ran and what it returned
    hist,           \* history: what the calls so far passed and met
    micro,          \* the widgets of the loaded document
    sessionFlag,    \* sessionStorage holds 'interaction-message-shown'
    bannersShown,   \* history: the banners shown in this session
    scroll,         \* the script state of scroll-lab.js in the loaded document
    vue,            \* the script state of vue-lab.js in the loaded document
    react,          \* the script state of react-lab.js in the loaded document
    tabs            \* two more tabs of the site, each inside markPageAsVisited or not

vars == << localStorage, storageMode, pathname, dom, ret, hist,
           micro, sessionFlag, bannersShown, scroll, vue, react, tabs >>

tracker == << localStorage, storageMode, pathname, dom, ret, hist, tabs >>

labPages == << scroll, vue, react >>

widgets == << micro, sessionFlag, bannersShown, labPages >>

NoPage == << >>

\* texts a store may hold that the program did not write: two that do not decode
\* (a character outside the encoding, a truncated list) and the empty text
CorruptTexts == { << "#" >>, << "[", "scroll-lab" >> }

ForeignTexts == { << >> } \cup CorruptTexts

\* no operation ran yet: no path loaded, no steps done
NoOp == [op |-> "none", arg |-> NoPage, threw |-> FALSE, val |-> << >>, logged |-> { }]

Init ==
    /\ localStorage \in { NoEntry } \cup { Entry(t) : t \in ForeignTexts }
    /\ storageMode = "ok"
    /\ pathname = NoPage
    /\ dom = Markup
    /\ ret = NoOp
    /\ hist = [clean |-> localStorage = NoEntry, passed |-> { }, saveFailed |-> FALSE]
    /\ micro = NoWidgets
    /\ sessionFlag = FALSE
    /\ bannersShown = 0
    /\ scroll = NoScroll
    /\ vue = NoVue
    /\ react = NoReact
    /\ tabs = [t \in Tabs |-> IdleTab]

\* history: while the store started empty and only catalog ids were passed, the ids
\* passed to markPageAsVisited and whether a save failed; nothing is kept otherwise
Recorded(h, ids, logged) ==
    IF h.clean /\ ids \subseteq CatalogIds
    THEN [h EXCEPT !.passed = @ \cup ids,
                   !.saveFailed = @ \/ SaveError \in logged]
    ELSE [clean |-> FALSE, passed |-> { }, saveFailed |-> FALSE]

(***************************************************************************)
(* Operations                                                              *)
(***************************************************************************)

\* the environment: the store starts or stops failing between two handlers
SetStorageMode(mode) ==
    /\ mode # storageMode
    /\ storageMode' = mode
    /\ ret' = NoOp
    /\ UNCHANGED << localStorage, pathname, dom, hist, widgets, tabs >>

Result(op, arg, r, val) ==
    [op |-> op, arg |-> arg, threw |-> r.threw, val |-> val, logged |-> r.logged]

TrackedId(path) ==
    IF getCurrentPageId(path) # Null THEN { getCurrentPageId(path) } ELSE { }

\* the scripts of the document at path have run: r is what initializeShared
\* answered, m and sc what the page's own script set up
LoadedAs(path, r, m, sc) ==
    /\ pathname' = path
    /\ localStorage' = r.store
    /\ dom' = r.dom
    /\ ret' = Result("initializeShared", path, r, r.done)
    /\ hist' = Recorded(hist, TrackedId(path), r.logged)
    /\ micro' = m
    /\ scroll' = sc
    /\ vue' = LoadedVue(path)
    /\ react' = LoadedReact(path)
    /\ UNCHANGED << storageMode, sessionFlag, bannersShown, tabs >>

Loaded(path, r) == LoadedAs(path, r, LoadedWidgets(path), LoadedScroll(path))

\* a document is loaded at path and main.js runs initializeShared (main.js:255-260)
LoadPage(path) ==
    Loaded(path, initializeShared(localStorage, path, DocumentAt(path), storageMode))

\* the same for a page other than the landing page whose markup has elements
\* with the classes of the progress indicator
LoadPageWithProgressMarkup(path) ==
    /\ CurrentFile(path) # "index.html"
    /\ Loaded(path, initializeShared(localStorage, path,
                                     [Markup EXCEPT !.hasProgress = TRUE],
                                     storageMode))

Read(op, arg, r) ==
    /\ pathname # NoPage
    /\ ret' = Result(op, arg, r, r.val)
    /\ UNCHANGED << localStorage, storageMode, pathname, dom, hist, widgets, tabs >>

\* window.PlaygroundProgress.getVisitedPages()
CallGetVisitedPages ==
    Read("getVisitedPages", Null, getVisitedPages(localStorage, storageMode))

\* window.PlaygroundProgress.isPageVisited(pageId)
CallIsPageVisited(pageId) ==
    Read("isPageVisited", pageId, isPageVisited(localStorage, pageId, storageMode))

\* window.PlaygroundProgress.getProgressStats()
CallGetProgressStats ==
    Read("getProgressStats", Null, getProgressStats(localStorage, storageMode))

Marked(pageId, r) ==
    /\ pathname # NoPage
    /\ localStorage' = r.store
    /\ ret' = Result("markPageAsVisited", pageId, r, Null)
    /\ hist' = Recorded(hist, { pageId }, r.logged)
    /\ UNCHANGED << storageMode, pathname, dom, widgets, tabs >>

\* window.PlaygroundProgress.markPageAsVisited(pageId)
CallMarkPageAsVisited(pageId) ==
    Marked(pageId, markPageAsVisited(localStorage, pageId, storageMode))

Updated(r) ==
    /\ pathname # NoPage
    /\ dom' = r.dom
    /\ ret' = Result("updateProgressIndicator", Null, r, Null)
    /\ UNCHANGED << localStorage, storageMode, pathname, hist, widgets, tabs >>

\* window.PlaygroundProgress.updateProgressIndicator()
CallUpdateProgressIndicator ==
    Updated(updateProgressIndicator(localStorage, pathname, dom, storageMode))

(***************************************************************************)
(* Events of the micro-interactions page.  hovered holds the elements that *)
(* got a mouseenter and no mouseleave yet; triggers may lie inside or over *)
(* one another, so entering one does not imply leaving another.            *)
(***************************************************************************)

HoverTargets == { "state-button", "flip-card" } \cup TooltipTriggers

Handled(r) ==
    /\ micro' = r.micro
    /\ sessionFlag' = r.flag
    /\ bannersShown' = bannersShown + r.shown
    /\ UNCHANGED << tracker, labPages >>

MouseEnter(el) ==
    /\ el \in micro.listeners
    /\ el \notin micro.hovered
    /\ Handled(mouseEnter([micro EXCEPT !.hovered = @ \cup { el }], sessionFlag, el))

MouseLeave(el) ==
    /\ el \in micro.listeners
    /\ el \in micro.hovered
    /\ Handled([micro |-> mouseLeave([micro EXCEPT !.hovered = @ \ { el }], el),
                flag |-> sessionFlag, shown |-> 0])

\* a click on the state button, by pointer or by keyboard
Click ==
    /\ "state-button" \in micro.listeners
    /\ micro.clickCount < MaxClicks
    /\ Handled(buttonClick(micro, sessionFlag))

\* the checkbox is toggled and its change event delivered
ToggleTheme ==
    /\ "theme-toggle" \in micro.listeners
    /\ Handled(themeChange([micro EXCEPT !.checked = ~@], sessionFlag))

\* the 300 ms timer of the fifth click expires (micro-interactions.js:51-53)
EasterEggTimer ==
    /\ micro.eggTimers > 0
    /\ micro' = showEasterEgg([micro EXCEPT !.eggTimers = @ - 1])
    /\ UNCHANGED << tracker, sessionFlag, bannersShown, labPages >>

\* the 10 ms timer of an overlay expires (micro-interactions.js:220-222)
EasterEggVisible(i) ==
    /\ micro.easterEggs[i] = "appended"
    /\ micro' = [micro EXCEPT !.easterEggs[i] = "visible"]
    /\ UNCHANGED << tracker, sessionFlag, bannersShown, labPages >>

\* the overlay's button is pressed (micro-interactions.js:215)
EasterEggDismiss(i) ==
    /\ micro' = [micro EXCEPT !.easterEggs = RemoveAt(@, i)]
    /\ UNCHANGED << tracker, sessionFlag, bannersShown, labPages >>

\* the next timer of banner i expires: 10 ms, 3000 ms, then 300 ms
BannerTimer(i) ==
    /\ micro' = IF NextPhase(micro.banners[i].phase) = "removed"
                THEN [micro EXCEPT !.banners = RemoveAt(@, i)]
                ELSE [micro EXCEPT !.banners[i].phase = NextPhase(@)]
    /\ UNCHANGED << tracker, sessionFlag, bannersShown, labPages >>

\* the tab is closed and a new session opened: sessionStorage starts empty
NewSession ==
    /\ pathname # NoPage
    /\ pathname' = NoPage
    /\ dom' = Markup
    /\ ret' = NoOp
    /\ micro' = NoWidgets
    /\ scroll' = NoScroll
    /\ vue' = NoVue
    /\ react' = NoReact
    /\ sessionFlag' = FALSE
    /\ bannersShown' = 0
    /\ UNCHANGED << localStorage, storageMode, hist, tabs >>

MicroPage == << "", MicroFile >>

NextMicro ==
    \/ LoadPage(MicroPage)
    \/ NewSession
    \/ \E el \in HoverTargets : MouseEnter(el)
    \/ \E el \in HoverTargets : MouseLeave(el)
    \/ Click
    \/ ToggleTheme
    \/ EasterEggTimer
    \/ \E i \in DOMAIN micro.easterEggs : EasterEggVisible(i)
    \/ \E i \in DOMAIN micro.easterEggs : EasterEggDismiss(i)
    \/ \E i \in DOMAIN micro.banners : BannerTimer(i)

SpecMicro == Init /\ [][NextMicro]_vars

\* a banner's pending timer expires
SpecMicroFair ==
    /\ SpecMicro
    /\ WF_micro(\E i \in DOMAIN micro.banners : BannerTimer(i))

(***************************************************************************)
(* Events of the scroll page                                               *)
(***************************************************************************)

\* history: a bottom reached and not yet followed by a return to the top, and the
\* bottom-then-top sequences completed in this page load
Travelled(s, before, scrollTop) ==
    [s EXCEPT !.awaitingTop = IF ScrollHeight - ClientHeight - scrollTop < 50 THEN TRUE
                              ELSE IF scrollTop < 100 THEN FALSE
                              ELSE @,
              !.journeys = IF before.awaitingTop /\ scrollTop < 100 /\ @ < MaxJourneys
                           THEN @ + 1
                           ELSE @]

\* the window is scrolled to scrollTop and the scroll event delivered
Scroll(scrollTop) ==
    /\ scroll.listening
    /\ scrollTop # scroll.scrollTop
    /\ scroll' = Travelled(onScroll([scroll EXCEPT !.scrollTop = scrollTop], scrollTop),
                           scroll, scrollTop)
    /\ UNCHANGED << tracker, micro, sessionFlag, bannersShown, vue, react >>

\* the 500 ms timer expires (scroll-lab.js:81-83)
ScrollTimer ==
    /\ scroll.scrollTimeout
    /\ scroll' = scrollShowEasterEgg([scroll EXCEPT !.scrollTimeout = FALSE])
    /\ UNCHANGED << tracker, micro, sessionFlag, bannersShown, vue, react >>

\* the 10 ms timer of an overlay expires (scroll-lab.js:124-126)
ScrollEggVisible(i) ==
    /\ scroll.overlays[i] = "appended"
    /\ scroll' = [scroll EXCEPT !.overlays[i] = "visible"]
    /\ UNCHANGED << tracker, micro, sessionFlag, bannersShown, vue, react >>

\* the overlay's button is pressed (scroll-lab.js:118)
ScrollEggDismiss(i) ==
    /\ scroll' = [scroll EXCEPT !.overlays = RemoveAt(@, i)]
    /\ UNCHANGED << tracker, micro, sessionFlag, bannersShown, vue, react >>

\* what an observer may report in one call: entries for sections
Batches ==
    UNION { [1..n -> [target : Sections, isIntersecting : BOOLEAN]] : n \in 1..MaxBatch }

\* the observer reports entries, all for sections observed when they were queued
Intersect(entries) ==
    /\ \A i \in DOMAIN entries : entries[i].target \in scroll.observed
    /\ scroll' = onIntersect(scroll, entries)
    /\ UNCHANGED << tracker, micro, sessionFlag, bannersShown, vue, react >>

\* what the timeline observer may report in one call
StepBatches ==
    UNION { [1..n -> [target : TimelineSteps, isIntersecting : BOOLEAN]] :
                n \in 1..MaxBatch }

\* the timeline observer reports entries for steps it observes
TimelineIntersect(entries) ==
    /\ \A i \in DOMAIN entries : entries[i].target \in scroll.steps
    /\ scroll' = onTimelineIntersect(scroll, entries)
    /\ UNCHANGED << tracker, micro, sessionFlag, bannersShown, vue, react >>

ScrollPage == << "", ScrollFile >>

NextScroll ==
    \/ LoadPage(ScrollPage)
    \/ \E scrollTop \in ScrollPositions : Scroll(scrollTop)
    \/ ScrollTimer
    \/ \E i \in DOMAIN scroll.overlays : ScrollEggVisible(i)
    \/ \E i \in DOMAIN scroll.overlays : ScrollEggDismiss(i)
    \/ \E entries \in Batches : Intersect(entries)

SpecScroll == Init /\ [][NextScroll]_vars

\* the scroll page with its timeline observer
NextTimeline ==
    \/ LoadPage(ScrollPage)
    \/ \E scrollTop \in ScrollPositions : Scroll(scrollTop)
    \/ ScrollTimer
    \/ \E entries \in StepBatches : TimelineIntersect(entries)

SpecTimeline == Init /\ [][NextTimeline]_vars

\* a timer that is pending and not cleared expires
SpecScrollFair ==
    /\ SpecScroll
    /\ WF_scroll(ScrollTimer)
    /\ WF_scroll(\E i \in DOMAIN scroll.overlays : ScrollEggVisible(i))

(***************************************************************************)
(* Documents that lack an element a script looks up                        *)
(***************************************************************************)

\* the micro-interactions page is loaded from markup without the element missing
LoadMicroWithout(missing) ==
    LoadedAs(MicroPage,
             initializeShared(localStorage, MicroPage, Markup, storageMode),
             init((MicroElements \cup TooltipTriggers) \ { missing }),
             NoScroll)

ScrollParts == { "sections", "steps", "hint" }

\* the scroll page is loaded from markup without one kind of element
LoadScrollWithout(part) ==
    LoadedAs(ScrollPage,
             initializeShared(localStorage, ScrollPage, Markup, storageMode),
             NoWidgets,
             scrollInit(IF part = "sections" THEN { } ELSE Sections,
                        IF part = "steps" THEN { } ELSE TimelineSteps,
                        part # "hint"))

NextSparse ==
    \/ \E missing \in MicroElements : LoadMicroWithout(missing)
    \/ \E part \in ScrollParts : LoadScrollWithout(part)
    \/ \E el \in HoverTargets : MouseEnter(el)
    \/ \E el \in HoverTargets : MouseLeave(el)
    \/ Click
    \/ ToggleTheme
    \/ \E scrollTop \in ScrollPositions : Scroll(scrollTop)
    \/ \E entries \in Batches : Intersect(entries)
    \/ \E entries \in StepBatches : TimelineIntersect(entries)

SpecSparse == Init /\ [][NextSparse]_vars

(***************************************************************************)
(* Events of the framework pages                                           *)
(***************************************************************************)

VuePage == << "", VueFile >>

ReactPage == << "", ReactFile >>

\* the script tag of the library finishes: Vue 3, or a Vue without createApp
VueLibraryLoads(kind) ==
    /\ pathname = VuePage
    /\ vue.lib = "absent"
    /\ vue' = [vue EXCEPT !.lib = kind]
    /\ UNCHANGED << tracker, micro, sessionFlag, bannersShown, scroll, react >>

\* a timer set with tryInitVue expires (vue-lab.js:203, 217, 219, 225)
VueTimer ==
    /\ vue.timers > 0
    /\ vue' = tryInitVue([vue EXCEPT !.timers = @ - 1])
    /\ UNCHANGED << tracker, micro, sessionFlag, bannersShown, scroll, react >>

\* the window's load event on the Vue page
VueWindowLoad ==
    /\ vue.loadPending
    /\ vue' = vueOnLoad([vue EXCEPT !.loadPending = FALSE])
    /\ UNCHANGED << tracker, micro, sessionFlag, bannersShown, scroll, react >>

\* the script tags of React and ReactDOM finish
ReactLibraryLoads ==
    /\ pathname = ReactPage
    /\ react.lib = "absent"
    /\ react' = [react EXCEPT !.lib = "loaded"]
    /\ UNCHANGED << tracker, micro, sessionFlag, bannersShown, scroll, vue >>

\* a timer set with initReactApp expires (react-lab.js:256, 258, 263)
ReactTimer ==
    /\ react.timers > 0
    /\ react' = initReactApp([react EXCEPT !.timers = @ - 1])
    /\ UNCHANGED << tracker, micro, sessionFlag, bannersShown, scroll, vue >>

\* the window's load event on the React page
ReactWindowLoad ==
    /\ react.loadPending
    /\ react' = reactOnLoad([react EXCEPT !.loadPending = FALSE])
    /\ UNCHANGED << tracker, micro, sessionFlag, bannersShown, scroll, vue >>

NextLabs ==
    \/ LoadPage(VuePage)
    \/ LoadPage(ReactPage)
    \/ \E kind \in { "vue3", "no-createApp" } : VueLibraryLoads(kind)
    \/ VueTimer
    \/ VueWindowLoad
    \/ ReactLibraryLoads
    \/ ReactTimer
    \/ ReactWindowLoad

SpecLabs == Init /\ [][NextLabs]_vars

\* timers expire and the load event is dispatched whatever else happens; each of
\* these steps changes the script state of its page and nothing else
SpecLabsFair ==
    /\ SpecLabs
    /\ WF_vue(VueTimer)
    /\ WF_vue(VueWindowLoad)
    /\ WF_react(ReactTimer)
    /\ WF_react(ReactWindowLoad)

(***************************************************************************)
(* Specifications.  The visited set and the document are independent of    *)
(* which page calls the exported functions, so the exported interface is   *)
(* explored from one untracked page (SpecApi) and the page life cycle      *)
(* with the calls a page load makes (Spec).                                *)
(***************************************************************************)

ApiPage == << "", "about.html" >>

NextApi ==
    \/ \E mode \in StorageModes : SetStorageMode(mode)
    \/ LoadPage(ApiPage)
    \/ CallGetVisitedPages
    \/ \E pageId \in PageIds : CallMarkPageAsVisited(pageId)
    \/ \E pageId \in PageIds : CallIsPageVisited(pageId)
    \/ CallGetProgressStats

SpecApi == Init /\ [][NextApi]_vars

Next ==
    \/ \E mode \in StorageModes : SetStorageMode(mode)
    \/ \E path \in Paths : LoadPage(path)
    \/ \E path \in Paths : LoadPageWithProgressMarkup(path)
    \/ CallUpdateProgressIndicator

Spec == Init /\ [][Next]_vars

\* every operation of main.js in one tab, over a few pages and ids
TabPaths == { << "", "index.html" >>, << "", "scroll-lab.html" >>, << "", "vue-lab.html" >> }

TabIds == { "scroll-lab", "other-page" }

NextTab ==
    \/ \E mode \in StorageModes : SetStorageMode(mode)
    \/ \E path \in TabPaths : LoadPage(path)
    \/ \E pageId \in TabIds : CallMarkPageAsVisited(pageId)
    \/ \E pageId \in TabIds : CallIsPageVisited(pageId)
    \/ CallGetVisitedPages
    \/ CallGetProgressStats
    \/ CallUpdateProgressIndicator

SpecTab == Init /\ [][NextTab]_vars

(***************************************************************************)
(* Two tabs of one origin call markPageAsVisited.  Each tab runs its own   *)
(* script; localStorage is shared, and the other tab may run between a     *)
(* tab's getItem and its setItem.                                          *)
(***************************************************************************)

RaceIds == { "micro-interactions", "scroll-lab", "vue-lab" }

\* tab t enters markPageAsVisited(pageId) and reads the list
TabReads(t, pageId) ==
    /\ pathname # NoPage
    /\ tabs[t].pc = "idle"
    /\ tabs' = [tabs EXCEPT ![t] = tabRead(localStorage, storageMode, pageId)]
    /\ hist' = Recorded(hist, { pageId }, tabs'[t].visited.logged)
    /\ UNCHANGED << localStorage, storageMode, pathname, dom, ret, widgets >>

\* tab t tests the list it read, saves it with the id pushed and returns
TabWrites(t) ==
    /\ tabs[t].pc = "read"
    /\ localStorage' = tabWrite(localStorage, storageMode, tabs[t]).store
    /\ hist' = Recorded(hist, { tabs[t].pageId },
                        tabWrite(localStorage, storageMode, tabs[t]).logged)
    /\ tabs' = [tabs EXCEPT ![t] = IdleTab]
    /\ UNCHANGED << storageMode, pathname, dom, ret, widgets >>

NextTwoTabs ==
    \/ LoadPage(ApiPage)
    \/ \E t \in Tabs, pageId \in RaceIds : TabReads(t, pageId)
    \/ \E t \in Tabs : TabWrites(t)

SpecTwoTabs == Init /\ [][NextTwoTabs]_vars

(***************************************************************************)
(* Properties                                                              *)
(***************************************************************************)

\* the ids the stored entry holds, read off the text: none when the entry is
\* absent or does not decode
StoredIds(store) ==
    IF ~store.present \/ store.text \in CorruptTexts THEN << >>
    ELSE SelectSeq(store.text, IsStringToken)

StoredSet(store) == Elements(StoredIds(store))

NoDuplicates(seq) == \A i, j \in 1..Len(seq) : seq[i] = seq[j] => i = j

\* what getVisitedPages() returns in this state
Observed == getVisitedPages(localStorage, storageMode).val

\* p is num / den rounded to the nearest integer, a half rounded up
IsNearest(p, num, den) ==
    /\ 2 * (p * den - num) <= den
    /\ 2 * (p * den - num) > -den

\* the catalog id of the page at path, from FEATURE_PAGES
IsTrackedPath(path) ==
    \E i \in DOMAIN FEATURE_PAGES : FEATURE_PAGES[i].url = path[Len(path)]

ExpectedId(path) ==
    FEATURE_PAGES[CHOOSE i \in DOMAIN FEATURE_PAGES :
                      FEATURE_PAGES[i].url = path[Len(path)]].id

\* loading path attempts a write that the store refuses
WriteFailsOnLoad(path) ==
    /\ IsTrackedPath(path)
    /\ \/ storageMode = "denied"
       \/ storageMode = "full" /\ ExpectedId(path) \notin StoredSet(localStorage)

\* C1 as stated: from empty storage, after markPageAsVisited calls with catalog ids,
\* getVisitedPages() has no duplicates and holds exactly the ids passed.
C1_Original ==
    hist.clean => NoDuplicates(Observed) /\ Elements(Observed) = hist.passed

C1_SetOfPassedIds ==
    (hist.clean /\ ~hist.saveFailed /\ storageMode # "denied")
        => NoDuplicates(Observed) /\ Elements(Observed) = hist.passed

C1_PresentIdChangesNothing ==
    (ret'.op = "markPageAsVisited" /\ ret'.arg \in StoredSet(localStorage))
        => localStorage' = localStorage

\* C1 (amended): from empty storage, while no storage access fails, after any
\* sequence of markPageAsVisited calls with catalog ids getVisitedPages() has no
\* duplicates and holds exactly the distinct ids passed; a call with an id already
\* present leaves the stored entry as it is.
C1_VisitedIsPassed ==
    [][C1_SetOfPassedIds' /\ C1_PresentIdChangesNothing]_vars

C1_Witness ==
    /\ hist.clean /\ ~hist.saveFailed /\ storageMode = "ok"
    /\ ret.op = "markPageAsVisited"
    /\ hist.passed = CatalogIds
    /\ Len(Observed) = Cardinality(CatalogIds)

\* C2 as stated: markPageAsVisited with an id outside the catalog leaves the
\* persisted set unchanged, so the persisted set holds only catalog ids.
C2_OnlyCatalogIds == StoredSet(localStorage) \subseteq CatalogIds

\* C3: getProgressStats() returns percentage = round(100 * visitedCount / total)
\* and allVisited = (visitedCount = total), with visitedCount the size of the
\* visited set getVisitedPages() returns (of the stored set when the store can be
\* read) and total 4.
C3_StatsFormula ==
    ret.op = "getProgressStats" =>
        /\ ~ret.threw
        /\ ret.val.total = 4
        /\ ret.val.visitedCount = Len(Observed)
        /\ storageMode # "denied" =>
               ret.val.visitedCount = Cardinality(StoredSet(localStorage))
        /\ IsNearest(ret.val.percentage, 100 * ret.val.visitedCount, ret.val.total)
        /\ ret.val.allVisited = (ret.val.visitedCount = ret.val.total)

C3_Witness ==
    /\ ret.op = "getProgressStats"
    /\ ret.val.visitedCount = 3
    /\ ret.val.percentage = 75
    /\ ~ret.val.allVisited

\* C4 as stated: after any markPageAsVisited calls with arbitrary arguments,
\* getProgressStats() returns total 4, visitedCount in 0..4, percentage in 0..100.
C4_StatsInRange ==
    ret.op = "getProgressStats" =>
        /\ ret.val.total = 4
        /\ ret.val.visitedCount \in 0..4
        /\ ret.val.percentage \in 0..100

\* C5: with no stored entry, getProgressStats() returns visitedCount 0, total 4,
\* percentage 0 and allVisited false.
C5_EmptyStorageStats ==
    (ret.op = "getProgressStats" /\ ~localStorage.present) =>
        /\ ~ret.threw
        /\ ret.val = [visitedCount |-> 0, total |-> 4, percentage |-> 0,
                      allVisited |-> FALSE]

C5_Witness == ret.op = "getProgressStats" /\ ~localStorage.present

\* C6: getVisitedPages() hands no error to its caller; when the storage read
\* throws or the stored text does not decode it returns the empty list; the
\* stored entry is left as it was.
C6_ReadFailsSoft ==
    [][ret'.op = "getVisitedPages" =>
          /\ ~ret'.threw
          /\ (\/ storageMode = "denied"
              \/ localStorage.present /\ localStorage.text \in CorruptTexts)
                 => ret'.val = << >>
          /\ localStorage' = localStorage]_vars

C6_Witness ==
    /\ ret.op = "getVisitedPages"
    /\ storageMode = "ok"
    /\ localStorage.present /\ localStorage.text \in CorruptTexts
    /\ ret.val = << >>

\* C7: when the storage write fails during the markPageAsVisited of a page load,
\* no error reaches the caller, the stored entry is unchanged and initialization
\* goes on: updateProgressIndicator and updateActiveNavLink run in the same load
\* and the nav link of the page is the active one.
C7_SaveFailureSwallowed ==
    [][(ret'.op = "initializeShared" /\ WriteFailsOnLoad(pathname')) =>
          /\ ~ret'.threw
          /\ localStorage' = localStorage
          /\ ret'.val = InitSteps
          /\ dom'.navActive = { pathname'[Len(pathname')] }]_vars

C7_Witness ==
    /\ ret.op = "initializeShared"
    /\ storageMode = "full"
    /\ SaveError \in ret.logged
    /\ IsTrackedPath(pathname)
    /\ ExpectedId(pathname) \notin StoredSet(localStorage)
    /\ StoredSet(localStorage) # { }

\* C8: in one tab the persisted visited set only grows, under page loads,
\* markPageAsVisited, isPageVisited, getVisitedPages, getProgressStats and
\* updateProgressIndicator.
C8_VisitedSetOnlyGrows ==
    [][StoredSet(localStorage) \subseteq StoredSet(localStorage')]_vars

C8_Witness ==
    /\ ret.op = "markPageAsVisited"
    /\ Cardinality(StoredSet(localStorage)) = 3

\* C9 as stated: after the load of a tracked page its id is in the persisted set;
\* the load of any other page resolves to no id and leaves the persisted set
\* unchanged.
C9_Original ==
    [][ret'.op = "initializeShared" =>
          IF IsTrackedPath(pathname')
          THEN ExpectedId(pathname') \in StoredSet(localStorage')
          ELSE /\ getCurrentPageId(pathname') = Null
               /\ localStorage' = localStorage]_vars

\* C9 (amended): after the load of a tracked page its id is in the persisted set
\* unless the store refused the write; the load of any other page resolves to no
\* id and leaves the stored entry unchanged.
C9_LoadMarksTrackedPage ==
    [][ret'.op = "initializeShared" =>
          IF IsTrackedPath(pathname')
          THEN /\ getCurrentPageId(pathname') = ExpectedId(pathname')
               /\ ~WriteFailsOnLoad(pathname')
                    => ExpectedId(pathname') \in StoredSet(localStorage')
          ELSE /\ getCurrentPageId(pathname') = Null
               /\ localStorage' = localStorage]_vars

C9_Witness ==
    /\ ret.op = "initializeShared"
    /\ storageMode = "ok"
    /\ pathname = << "", "react-lab.html" >>
    /\ StoredIds(localStorage) = << "vue-lab", "react-lab" >>

\* C10: in one session at most one notification banner is ever shown, whatever
\* widgets request it and across reloads: the first request shows it and sets the
\* session flag, later requests add no banner.
C10_OneBannerPerSession ==
    /\ bannersShown <= 1
    /\ sessionFlag <=> bannersShown = 1
    /\ Len(micro.banners) <= bannersShown

\* two widgets have requested the notification in one page load
C10_Witness ==
    /\ bannersShown = 1
    /\ micro.currentState = 2
    /\ micro.checked
    /\ micro.banners = << >>

\* C11: within one page load the celebratory overlay is scheduled exactly once,
\* by the 5th click on the state button: not by clicks 1 to 4, and not again by
\* the 6th or a later click.
C11_EggOnFifthClickOnly ==
    /\ micro.eggsScheduled = (IF micro.clickCount >= 5 THEN 1 ELSE 0)
    /\ micro.eggTimers + Len(micro.easterEggs) <= micro.eggsScheduled

C11_Witness ==
    /\ micro.clickCount = 6
    /\ micro.eggsScheduled = 1
    /\ Len(micro.easterEggs) = 1

\* the tooltip overlays present in the document
RECURSIVE TooltipsPresent(_, _)
TooltipsPresent(m, triggers) ==
    IF triggers = { } THEN 0
    ELSE m.tooltips[CHOOSE t \in triggers : TRUE]
         + TooltipsPresent(m, triggers \ { CHOOSE t \in triggers : TRUE })

\* C14 as stated: when the pointer enters tooltip trigger A and then, without a
\* mouseleave on A, enters trigger B, two tooltip overlays are never present at
\* the same time.
C14_OneTooltipAtMost == TooltipsPresent(micro, TooltipTriggers) <= 1

\* C17: the state of the button changes only from Idle to Hovered on mouseenter,
\* from Hovered to Idle on mouseleave and from Hovered to Clicked on click; once
\* Clicked it stays so until the document is loaded again.
C17_ButtonTransitions ==
    [][micro'.currentState # micro.currentState =>
          \/ micro' \in { NoWidgets, LoadedWidgets(MicroPage) }
          \/ /\ micro.currentState = 0 /\ micro'.currentState = 1
             /\ MouseEnter("state-button")
          \/ /\ micro.currentState = 1 /\ micro'.currentState = 0
             /\ MouseLeave("state-button")
          \/ /\ micro.currentState = 1 /\ micro'.currentState = 2
             /\ Click]_vars

\* the button was clicked, then left, entered and clicked again
C17_Witness ==
    /\ micro.currentState = 2
    /\ micro.clickCount = 3
    /\ "state-button" \notin micro.hovered

\* the document was loaded anew: the script state is that of a fresh document
FreshScroll(s) == s \in { NoScroll, LoadedScroll(ScrollPage) }

\* C12: within one page load the discovery overlay is requested once, by the first
\* scroll to within 100 of the top that follows a scroll to within 50 of the
\* bottom, and never again however often the bottom-then-top sequence repeats.
C12_DiscoveryRequestedOnce ==
    [][/\ scroll'.overlayRequests = (IF scroll'.journeys > 0 THEN 1 ELSE 0)
       /\ (scroll'.scrollTimeout => scroll'.overlayRequests = 1)
       /\ Len(scroll'.overlays) + (IF scroll'.scrollTimeout THEN 1 ELSE 0)
              <= scroll'.overlayRequests
       /\ scroll'.overlayRequests > scroll.overlayRequests =>
              scroll.journeys = 0 /\ scroll'.scrollTop < 100]_vars

C12_Witness ==
    /\ scroll.journeys = 2
    /\ scroll.overlayRequests = 1
    /\ Len(scroll.overlays) = 1

\* C13: hasReachedBottom and hasReturnedToTop are false when the page has loaded,
\* each only changes from false to true within a page load, and hasReturnedToTop
\* implies hasReachedBottom.
C13_JourneyFlagsMonotone ==
    [][/\ (pathname = NoPage /\ pathname' # NoPage) =>
              ~scroll'.hasReachedBottom /\ ~scroll'.hasReturnedToTop
       /\ scroll'.hasReturnedToTop => scroll'.hasReachedBottom
       /\ ~FreshScroll(scroll') =>
              /\ scroll.hasReachedBottom => scroll'.hasReachedBottom
              /\ scroll.hasReturnedToTop => scroll'.hasReturnedToTop]_vars

C13_Witness ==
    /\ scroll.hasReachedBottom
    /\ scroll.hasReturnedToTop
    /\ scroll.scrollTop = 300
    /\ scroll.journeys = 1

\* C20: a section gets the visible flag at the first observer entry that reports
\* it intersecting, keeps it for the rest of the page load, and is unobserved from
\* then on, so no later entry is delivered for it.
C20_SectionRevealedOnce ==
    [][/\ scroll'.listening => scroll'.observed = Sections \ scroll'.visible
       /\ ~FreshScroll(scroll') => scroll.visible \subseteq scroll'.visible
       /\ \A entries \in Batches :
              Intersect(entries) =>
                  scroll'.visible = scroll.visible
                      \cup { entries[i].target : i \in { j \in DOMAIN entries :
                                                          entries[j].isIntersecting } }]_vars

C20_Witness ==
    /\ scroll.visible = { "section-1" }
    /\ scroll.observed = { "section-2" }
    /\ scroll.scrollTop = 0
    /\ scroll.hasReachedBottom

\* the landing page is loaded and the progress indicator was just rendered
RenderedOnLanding ==
    /\ ret.op \in { "initializeShared", "updateProgressIndicator" }
    /\ pathname \in { << "", "" >>, << "", "index.html" >>, << "", "lab1", "" >> }

\* the number of ids the program reads from the store in this state
CountRead ==
    IF storageMode = "denied" THEN 0 ELSE Cardinality(StoredSet(localStorage))

\* the tips of the landing page, by visited count
TipTable ==
    << "try-scroll-storytelling-next",
       "check-react-or-vue-lab",
       "visit-last-remaining-section",
       "explored-everything" >>

\* C18: after updateProgressIndicator on the landing page the tip is the one the
\* table gives for the visited count: the intro tip for 0, for 1 the 'try Scroll
\* Storytelling next' tip, for 2 the frameworks tip, for 3 the 'last remaining
\* section' tip, for 4 the closing tip; with visited = {scroll-lab} the percentage
\* is 25, allVisited is false and the tip is that of count 1.
C18_TipByVisitedCount ==
    RenderedOnLanding =>
        /\ CountRead \in 0..4
        /\ dom.tipsContent = (IF CountRead = 0 THEN "start-with-micro-interactions"
                              ELSE TipTable[CountRead])
        /\ (storageMode # "denied" /\ StoredSet(localStorage) = { "scroll-lab" }) =>
               /\ dom.progressFill = << 25 >>
               /\ dom.successBox = "hidden"
               /\ dom.tipsContent = "try-scroll-storytelling-next"

C18_Witness ==
    /\ RenderedOnLanding
    /\ storageMode = "ok"
    /\ StoredSet(localStorage) = { "scroll-lab" }
    /\ dom.tipsContent = "try-scroll-storytelling-next"
    /\ dom.progressFill = << 25 >>

\* C19: after every updateProgressIndicator on the landing page the
\* congratulations box is shown iff allVisited holds of the visited set read in
\* that state, and it is hidden again when allVisited no longer holds.
C19_CongratsIffAllVisited ==
    RenderedOnLanding =>
        /\ dom.successBox \in { "shown", "hidden" }
        /\ dom.successBox = "shown" <=> CountRead = Len(FEATURE_PAGES)

\* all four pages were visited and the box shown; then the store refused the read
\* and the box was hidden again
C19_Witness ==
    /\ RenderedOnLanding
    /\ storageMode = "denied"
    /\ Cardinality(StoredSet(localStorage)) = 4
    /\ dom.successBox = "hidden"

\* C15 as stated: on the Vue page, when the library is still absent after
\* maxAttempts attempts, the fallback panel has been rendered into the root exactly
\* once in the page load.
C15_FallbackRenderedOnce ==
    (/\ pathname = VuePage
     /\ vue.lib = "absent"
     /\ vue.initAttempts >= maxAttempts
     /\ vue.timers = 0
     /\ ~vue.loadPending) => vue.fallbackRenders = 1

\* C16 as stated: on the React page and on the Vue page, if the library never
\* becomes available, the page that stays loaded eventually shows the static
\* fallback panel in place of the widget.
C16_FallbackEventually ==
    [](vue.lib = "absent" /\ react.lib = "absent") =>
        /\ <>[](pathname = VuePage) => <>(vue.root = "fallback")
        /\ <>[](pathname = ReactPage) => <>(react.root = "fallback")

\* the last entry of a batch that is about step
LastEntryFor(entries, step) ==
    entries[CHOOSE i \in DOMAIN entries :
                /\ entries[i].target = step
                /\ \A j \in DOMAIN entries : entries[j].target = step => j <= i]

\* C21: after every call of the timeline observer a step it reported on is active
\* iff the last entry for it said isIntersecting, the other steps are as they were,
\* and every step stays observed for the whole page load, so a step becomes active
\* and inactive again any number of times.
C21_TimelineFollowsEntries ==
    [][/\ scroll'.listening => scroll'.steps = TimelineSteps
       /\ \A entries \in StepBatches :
              TimelineIntersect(entries) =>
                  \A step \in TimelineSteps :
                      IF \E i \in DOMAIN entries : entries[i].target = step
                      THEN step \in scroll'.active
                               <=> LastEntryFor(entries, step).isIntersecting
                      ELSE step \in scroll'.active <=> step \in scroll.active]_vars

\* a step is active, the other is not, and the journey is over: the steps were
\* reported on among other events and are still observed
C21_Witness ==
    /\ scroll.active = { "step-2" }
    /\ scroll.steps = TimelineSteps
    /\ scroll.hasReturnedToTop
    /\ scroll.overlaysShown = 1

\* C30: after every scroll event the scroll hint is faded out iff scrollTop is
\* greater than 300, whatever the earlier positions and the journey flags.
C30_HintFadedIffBelow300 ==
    [][\A scrollTop \in ScrollPositions :
          Scroll(scrollTop) => (scroll'.hintFaded <=> scrollTop > 300)]_vars

\* the hint is shown again at the top after the journey's flags were set
C30_Witness ==
    /\ ~scroll.hintFaded
    /\ scroll.scrollTop = 300
    /\ scroll.hasReachedBottom
    /\ scroll.hasReturnedToTop

\* the listeners init registers in a document with these elements
ExpectedListeners(elements) ==
    { el \in { "state-button", "flip-card" } \cup TooltipTriggers : el \in elements }
    \cup { el \in { "theme-toggle" } : { "theme-toggle", "theme-preview" } \subseteq elements }

\* C22: when an element an initializer looks up is absent from the document, the
\* initializer registers nothing and raises no error, and the other widgets of the
\* page are set up and act as in the full document.
C22_AbsentElementSkipped ==
    /\ pathname = MicroPage =>
           /\ ~micro.initError
           /\ micro.listeners = ExpectedListeners(micro.elements)
           /\ micro.currentState = 2 => micro.buttonText = states[3]
           /\ (micro.flipped => "flip-card" \in micro.hovered)
           /\ \A t \in TooltipTriggers : micro.tooltips[t] = (IF t \in micro.hovered THEN 1 ELSE 0)
    /\ pathname = ScrollPage =>
           /\ ~scroll.threw
           /\ scroll.listening
           /\ scroll.steps = scroll.docSteps
           /\ scroll.observed = scroll.docSections \ scroll.visible
           /\ scroll.active \subseteq scroll.docSteps
           /\ scroll.hintFaded <=> (scroll.hasHint /\ scroll.scrollTop > 300)
           /\ scroll.overlayRequests = (IF scroll.journeys > 0 THEN 1 ELSE 0)

\* the button is missing and the theme toggle, the flip card and a tooltip work
C22_Witness ==
    /\ pathname = MicroPage
    /\ "state-button" \notin micro.elements
    /\ micro.darkTheme
    /\ micro.flipped
    /\ micro.tooltips["tooltip-a"] = 1
    /\ bannersShown = 1

\* C23 as stated: once a scroll event has set hasReturnedToTop, the discovery
\* overlay is eventually displayed in that page load, whatever scroll events come
\* before the delay expires.
C23_OverlayEventuallyShown ==
    scroll.hasReturnedToTop ~> (scroll.overlaysShown > 0 \/ ~scroll.hasReturnedToTop)

\* C24 as stated: on the Vue lab page, however the DOM-ready timer chain and the
\* window-load timer chain interleave, the number of initialization attempts of
\* one page load never exceeds maxAttempts.
C24_AttemptsAtMostMax == vue.initAttempts <= maxAttempts

\* C25: on the Vue lab page polling terminates: in a page load that is not
\* replaced by another, whether the library loads, never loads or loads without
\* createApp, once the load event is past eventually no poll timer is pending
\* any more, and from such a state no further initialization attempt is made.
C25_PollingTerminates ==
    /\ <>[](pathname = VuePage /\ ~vue.loadPending) => <>[](vue.timers = 0)
    /\ [][(pathname = VuePage /\ vue.timers = 0 /\ ~vue.loadPending)
            => (vue'.initAttempts = vue.initAttempts \/ vue'.initAttempts = 0)]_vue

\* the library never loaded and both timer chains have run out
C25_Witness ==
    /\ pathname = VuePage
    /\ vue.lib = "absent"
    /\ vue.timers = 0
    /\ ~vue.loadPending
    /\ vue.initAttempts >= maxAttempts

C27_BannerRemovedFlagKept ==
    /\ (Len(micro.banners) > 0) ~> (Len(micro.banners) = 0)
    /\ [][(sessionFlag /\ pathname' # NoPage)
            => (sessionFlag' /\ bannersShown' = bannersShown)]_vars

\* the banner has been removed and two widgets have asked for it since it was
\* first requested
C27_Witness ==
    /\ sessionFlag
    /\ bannersShown = 1
    /\ micro.banners = << >>
    /\ micro.flipped
    /\ micro.hovered = { "flip-card", "tooltip-b" }

\* the landing page: the site's root directory or its index.html
IsLandingPath(path) == path[Len(path)] \in { "", "index.html" }

\* the progress bar, progress text, status badges, congratulations box and tip
ProgressPart(d) ==
    << d.progressFill, d.progressText, d.cardStatus, d.successBox, d.tipsContent >>

\* C28: the progress indicator changes the progress bar, the progress text, the
\* status badges, the congratulations box and the tip only on the landing page:
\* on the four tracked pages, and on any other page, a call and the call made at
\* load leave them as they were, also when the document has such elements.
C28_RendersOnLandingOnly ==
    [][/\ (ret'.op = "updateProgressIndicator" /\ ~IsLandingPath(pathname))
            => (dom' = dom /\ ~ret'.threw)
       /\ (ret'.op = "initializeShared" /\ ~IsLandingPath(pathname'))
            => ProgressPart(dom') = ProgressPart(Markup)
       /\ (ret'.op \in { "updateProgressIndicator", "initializeShared" }
             /\ ProgressPart(dom') # ProgressPart(dom)
             /\ ProgressPart(dom') # ProgressPart(Markup))
            => IsLandingPath(pathname')]_vars

\* a tracked page whose document has the indicator's elements: the call left
\* them as the markup has them although pages are recorded as visited
C28_Witness ==
    /\ ret.op = "updateProgressIndicator"
    /\ pathname = << "", "vue-lab.html" >>
    /\ dom.hasProgress
    /\ ProgressPart(dom) = ProgressPart(Markup)
    /\ storageMode = "ok"
    /\ Cardinality(StoredSet(localStorage)) = 2

\* C29: when two tabs run markPageAsVisited and their reads and writes of the
\* store interleave, a write replaces the whole stored list by the list the
\* writer read with its id pushed, so an id the other tab added meanwhile is
\* lost; the stored list never has duplicates and never an id that no tab passed.
C29_LastWriterWins ==
    [][\A t \in Tabs :
          (tabs[t].pc = "read" /\ tabs'[t].pc = "idle") =>
              /\ ~Includes(tabs[t].visited.val, tabs[t].pageId)
                   => StoredIds(localStorage')
                        = Append(tabs[t].visited.val, tabs[t].pageId)
              /\ Includes(tabs[t].visited.val, tabs[t].pageId)
                   => localStorage' = localStorage
              /\ NoDuplicates(StoredIds(localStorage'))
              /\ hist'.clean => StoredSet(localStorage') \subseteq hist'.passed]_vars

\* the lost update: both tabs have returned, no save failed, two ids were passed
\* and the stored list holds only one of them
C29_Witness ==
    /\ \A t \in Tabs : tabs[t].pc = "idle"
    /\ hist.clean
    /\ ~hist.saveFailed
    /\ hist.passed = { "scroll-lab", "vue-lab" }
    /\ StoredIds(localStorage) = << "scroll-lab" >>

\* C31 as stated: in every state reached by markPageAsVisited calls with any ids,
\* getProgressStats().allVisited is true iff isPageVisited answers true for each
\* of the four catalog pages.
C31_AllVisitedIffEachVisited ==
    getProgressStats(localStorage, storageMode).val.allVisited
        <=> \A id \in CatalogIds : isPageVisited(localStorage, id, storageMode).val

\* C32 as stated: on the Vue lab page the application is created and mounted on
\* the root at most once per page load, in every order of the DOM-ready timer,
\* the poll timers and the load handler.
C32_VueMountedAtMostOnce == vue.mounts <= 1

\* C33 as stated: on the Vue lab page, whenever the application is mounted the
\* root still holds its original template: no failed attempt of the page load
\* has put the fallback panel there before.
C33_MountedOverTemplate == vue.mountedOver \subseteq { "template" }

\* C34 as stated: on the React lab page the component is mounted into the root
\* at most once per page load, whatever the order of the DOM-ready timer and the
\* load timer.
C34_ReactMountedAtMostOnce == react.mounts <= 1

\* C35: a click on the state button while it is Idle increments the click counter
\* and counts toward the overlay of the 5th click, but leaves the button Idle and
\* requests no notification; the button requests the notification only when a
\* click takes it from Hovered to Clicked, hence at most once per page load.
C35_IdleClickCountsOnly ==
    [][Click =>
          /\ micro'.clickCount = micro.clickCount + 1
          /\ micro'.eggsScheduled
                = micro.eggsScheduled + (IF micro'.clickCount = 5 THEN 1 ELSE 0)
          /\ micro.currentState = 0 =>
                /\ micro'.currentState = 0
                /\ micro'.buttonText = micro.buttonText
                /\ micro'.buttonRequests = micro.buttonRequests
                /\ micro'.banners = micro.banners
                /\ sessionFlag' = sessionFlag
          /\ micro'.buttonRequests # micro.buttonRequests =>
                /\ micro.currentState = 1
                /\ micro'.currentState = 2
                /\ micro'.buttonRequests = 1]_vars

\* five clicks reached the button while Idle: the overlay of the 5th click was
\* scheduled, the button still reads "Hover me" and no banner was ever shown
C35_Witness ==
    /\ micro.clickCount = 5
    /\ micro.currentState = 0
    /\ micro.buttonText = states[1]
    /\ micro.eggsScheduled = 1
    /\ micro.buttonRequests = 0
    /\ bannersShown = 0

====
